---- MODULE Spec2Model ----
(***************************************************************************)
(* Tectonic: the VectorCache / CachePartition / CacheShard hierarchy.      *)
(* The state is one program instance: either a cache built by              *)
(* VectorCache::new, or a single partition built by CachePartition::new.   *)
(* A failed assert!/panic! is recorded as the result "panic"; asserts are  *)
(* the first statement of the functions that hold them, so a panicking     *)
(* call leaves the object as it was.                                       *)
(***************************************************************************)
EXTENDS Integers, Sequences, FiniteSets, TLC

VARIABLES cfg, status, search_metric, partitions, last

vars == <<cfg, status, search_metric, partitions, last>>

(* ------------------------------ bounds -------------------------------- *)

\* largest max_entries a configuration of Spec draws
MaxEntries == 2
\* largest partition_count a configuration of Spec draws
MaxParts == 2
\* largest shard_count a configuration of Spec draws
MaxShards == 1
\* most vectors a partition's own `entries` holds (a partition of capacity 0
\* is always "full", so its insert never stops growing it)
MaxStored == 2
\* largest centroid_update (inserts between rebuilds) a configuration draws
MaxInterval == 1
\* largest top_k and largest threshold a query draws
MaxTopK == 1
MaxThreshold == 1
\* largest max_entries and largest counts a configuration of CtorSpec draws
MaxCtorEntries == 10
MaxCtorCount == 3

(* ----------------------------- constants ------------------------------ *)

\* const generic D: the vector dimension
D == 2
\* levels passed to scalar_quantize by CachePartition::insert
Levels == 256

\* input vectors: <<0,1>> and <<1,0>> quantize to different bytes with the
\* same fingerprint; <<1,1>> is flat and quantizes to <<0,0>>
Vectors == {<<0, 1>>, <<1, 0>>, <<1, 1>>}
\* entry ids a caller hands to CacheShard::insert
Ids == {1, 2}
\* metric names handed to VectorCache::new
MetricNames ==
    {"cosine", "Cosine", "euclidean", "EUCLIDEAN", "dot-product", "manhattan"}

None == <<>>
Some(x) == <<x>>

(* ------------------------- utility/vector_utils ----------------------- *)

RECURSIVE SeqMin(_), SeqMax(_), SeqSum(_)
SeqMin(s) ==
    IF Len(s) = 1 THEN s[1]
    ELSE LET m == SeqMin(Tail(s)) IN IF s[1] < m THEN s[1] ELSE m

SeqMax(s) ==
    IF Len(s) = 1 THEN s[1]
    ELSE LET m == SeqMax(Tail(s)) IN IF s[1] > m THEN s[1] ELSE m

SeqSum(s) == IF s = <<>> THEN 0 ELSE s[1] + SeqSum(Tail(s))

\* ((x - min) / scale).round() with scale = (max - min) / (levels - 1);
\* a flat vector has scale 0, 0/0 is NaN, and NaN cast to u8 is 0
QuantizeComponent(x, min, max, levels) ==
    IF max = min THEN 0
    ELSE LET num == (x - min) * (levels - 1)
             den == max - min
             q   == (2 * num + den) \div (2 * den)
         IN IF q < 0 THEN 0 ELSE IF q > levels - 1 THEN levels - 1 ELSE q

scalar_quantize(vec, levels) ==
    LET min == SeqMin(vec)
        max == SeqMax(vec)
    IN [i \in 1..Len(vec) |-> QuantizeComponent(vec[i], min, max, levels)]

\* fingerprint of the quantized bytes: a deterministic hash with collisions
generate_vector_id(quantized) == SeqSum(quantized)

\* hash_u64: DefaultHasher over the id, kept as an uninterpreted term
hash_u64(value) == <<"DefaultHasher", value>>

VectorEntry_new(id, vector) ==
    [entry_id |-> id, vector |-> vector, key_hash |-> hash_u64(id)]

(* ------------------------------- search ------------------------------- *)

RECURSIVE DotSum(_, _)
DotSum(x, y) ==
    IF x = <<>> THEN 0 ELSE x[1] * y[1] + DotSum(Tail(x), Tail(y))

\* EuclideanProduct::distance: the sum of squared differences
euclidean_distance(x, y) ==
    LET diff == [i \in 1..Len(x) |-> x[i] - y[i]] IN DotSum(diff, diff)

\* DotProduct::distance: the negated dot product
dot_distance(x, y) == 0 - DotSum(x, y)

\* CosineProduct::distance, where it needs no square root: 1.0 for a zero
\* norm or orthogonal vectors, 0.0 / 2.0 for parallel / opposite ones
cosine_distance(x, y) ==
    LET dot_product == DotSum(x, y)
        norm_x == DotSum(x, x)
        norm_y == DotSum(y, y)
    IN CASE norm_x = 0 \/ norm_y = 0 -> 1
         [] dot_product = 0 -> 1
         [] dot_product * dot_product = norm_x * norm_y /\ dot_product > 0 -> 0
         [] dot_product * dot_product = norm_x * norm_y /\ dot_product < 0 -> 2

\* DistanceMetric::distance through the boxed strategy
distance(metric, x, y) ==
    CASE metric = "EuclideanProduct" -> euclidean_distance(x, y)
      [] metric = "DotProduct"       -> dot_distance(x, y)
      [] metric = "CosineProduct"    -> cosine_distance(x, y)

(* -------------------------- cache/cache_shard -------------------------- *)

CacheShard_new(shard_id, max_entries) ==
    [shard_id |-> shard_id, max_entries |-> max_entries,
     entry_count |-> 0, entries |-> <<>>]

CacheShard_is_full(shard) == shard.entry_count >= shard.max_entries

\* an insert without the is_full() check
CacheShard_insert_unbounded(shard, vector, overwrite, id) ==
    IF ~overwrite /\ \E i \in 1..Len(shard.entries) :
                         shard.entries[i].vector = vector
    THEN [res |-> FALSE, shard |-> shard]
    ELSE [res |-> TRUE,
          shard |-> [shard EXCEPT !.entries = Append(@, VectorEntry_new(id, vector)),
                                  !.entry_count = @ + 1]]

\* [res, shard]: the returned bool and the shard afterwards
CacheShard_insert(shard, vector, overwrite, id) ==
    IF CacheShard_is_full(shard)
    THEN [res |-> FALSE, shard |-> shard]
    ELSE IF ~overwrite /\ \E i \in 1..Len(shard.entries) :
                              shard.entries[i].vector = vector
    THEN [res |-> FALSE, shard |-> shard]
    ELSE [res |-> TRUE,
          shard |-> [shard EXCEPT !.entries = Append(@, VectorEntry_new(id, vector)),
                                  !.entry_count = @ + 1]]

\* mean[index] += entry.vector[index] over all entries, from [0.0; D]
RECURSIVE SumVectors(_, _)
SumVectors(entries, acc) ==
    IF entries = <<>> THEN acc
    ELSE SumVectors(Tail(entries),
                    [i \in 1..D |-> acc[i] + entries[1].vector[i]])

Zeros == [i \in 1..D |-> 0]

\* a partial centroid that hands back the mean instead of the sum
get_shard_centroid_normalized(shard) ==
    IF shard.entry_count = 0 THEN None
    ELSE Some([sum |-> [i \in 1..D |->
                          SumVectors(shard.entries, Zeros)[i] \div shard.entry_count],
               count |-> shard.entry_count])

\* Option<([f32; D], f32)>: None, or the unnormalized sum and the count
get_shard_centroid(shard) ==
    IF shard.entry_count = 0 THEN None
    ELSE Some([sum |-> SumVectors(shard.entries, Zeros),
               count |-> shard.entry_count])

(* ------------------------ cache/cache_partition ----------------------- *)

EmptyMap == [k \in {} |-> <<>>]

CachePartition_new(partition_id, max_entries, shard_count) ==
    [partition_id |-> partition_id, id_counter |-> 0,
     max_entries |-> max_entries,
     entry_count |-> 0, centroid |-> None, id_map |-> EmptyMap,
     entries |-> <<>>, shards |-> <<>>]

CachePartition_is_full(part) == part.entry_count >= part.max_entries

MapRemove(m, key) == [k \in DOMAIN m \ {key} |-> m[k]]
MapInsert(m, key, value) ==
    [k \in DOMAIN m \cup {key} |-> IF k = key THEN value ELSE m[k]]

\* an insert that replaces a colliding mapping without the decrement
CachePartition_insert_no_decrement(part, entry, overwrite) ==
    IF ~CachePartition_is_full(part)
    THEN [res |-> "panic", part |-> part]
    ELSE
    LET quantized_vector == scalar_quantize(entry, Levels)
        map_id == generate_vector_id(quantized_vector)
        present == map_id \in DOMAIN part.id_map
    IN  IF present /\ ~overwrite /\ part.id_map[map_id] = quantized_vector
        THEN [res |-> "Err(false)", part |-> part]
        ELSE [res |-> "Ok(true)",
              part |-> [part EXCEPT
                          !.id_map = MapInsert(@, map_id, quantized_vector),
                          !.entries = Append(@, entry),
                          !.entry_count = @ + 1]]

\* an insert that also moves the centroid onto the new entry
CachePartition_insert_eager_centroid(part, entry, overwrite) ==
    IF ~CachePartition_is_full(part)
    THEN [res |-> "panic", part |-> part]
    ELSE
    LET quantized_vector == scalar_quantize(entry, Levels)
        map_id == generate_vector_id(quantized_vector)
        present == map_id \in DOMAIN part.id_map
    IN  IF present /\ ~overwrite /\ part.id_map[map_id] = quantized_vector
        THEN [res |-> "Err(false)", part |-> part]
        ELSE
        LET removed == IF present /\ ~overwrite
                       THEN [part EXCEPT !.id_map = MapRemove(@, map_id),
                                         !.entry_count = @ - 1]
                       ELSE part
        IN  [res |-> "Ok(true)",
             part |-> [removed EXCEPT
                         !.id_map = MapInsert(@, map_id, quantized_vector),
                         !.entries = Append(@, entry),
                         !.entry_count = @ + 1,
                         !.centroid = Some([i \in 1..D |->
                                              [num |-> entry[i], den |-> 1]])]]

\* [res, part]: the result and the partition afterwards.  The function opens
\* with assert!(self.is_full(), ...): it panics unless the partition is full.
CachePartition_insert(part, entry, overwrite) ==
    IF ~CachePartition_is_full(part)
    THEN [res |-> "panic", part |-> part]
    ELSE
    LET quantized_vector == scalar_quantize(entry, Levels)
        map_id == generate_vector_id(quantized_vector)
        present == map_id \in DOMAIN part.id_map
    IN  IF present /\ ~overwrite /\ part.id_map[map_id] = quantized_vector
        THEN [res |-> "Err(false)", part |-> part]
        ELSE
        LET removed == IF present /\ ~overwrite
                       THEN [part EXCEPT !.id_map = MapRemove(@, map_id),
                                         !.entry_count = @ - 1]
                       ELSE part
        IN  [res |-> "Ok(true)",
             part |-> [removed EXCEPT
                         !.id_map = MapInsert(@, map_id, quantized_vector),
                         !.entries = Append(@, entry),
                         !.entry_count = @ + 1]]

\* CachePartition::query: a placeholder that returns Vec::new()
CachePartition_query(part, vector, top_k) == <<>>

\* [panic, sizes]: vec![base; n] with the first `remainder` sizes bumped
RECURSIVE AddRemainder(_, _, _)
AddRemainder(sizes, i, remainder) ==
    IF i >= remainder THEN sizes
    ELSE AddRemainder([sizes EXCEPT ![i + 1] = @ + 1], i + 1, remainder)

\* a split that drops the remainder instead of handing it to the first shards
calculate_shard_size_truncating(max_entries, shard_count) ==
    IF ~(shard_count > 0) THEN [panic |-> TRUE, sizes |-> <<>>]
    ELSE [panic |-> FALSE,
          sizes |-> [i \in 1..shard_count |-> max_entries \div shard_count]]

calculate_shard_size(max_entries, shard_count) ==
    IF ~(shard_count > 0) THEN [panic |-> TRUE, sizes |-> <<>>]
    ELSE LET base == max_entries \div shard_count
             remainder == max_entries % shard_count
         IN [panic |-> FALSE,
             sizes |-> AddRemainder([i \in 1..shard_count |-> base], 0, remainder)]

\* [panic, part]
initiate_shards(part, total_size, shard_count) ==
    LET r == calculate_shard_size(total_size, shard_count)
    IN IF r.panic THEN [panic |-> TRUE, part |-> part]
       ELSE [panic |-> FALSE,
             part |-> [part EXCEPT !.shards =
                         @ \o [i \in 1..Len(r.sizes) |->
                                 CacheShard_new(i - 1, r.sizes[i])]]]

\* x / n in f32, kept as the exact quotient; 0/0 is NaN
F32Div(x, n) == [num |-> x, den |-> n]
IsNaN(f) == f.num = 0 /\ f.den = 0

\* the loop over the shards: the summed partial sums and the total count
RECURSIVE AggregateShards(_, _, _)
AggregateShards(shards, total_entries, mean) ==
    IF shards = <<>> THEN [total_entries |-> total_entries, mean |-> mean]
    ELSE LET c == get_shard_centroid(shards[1])
         IN IF c = None
            THEN AggregateShards(Tail(shards), total_entries, mean)
            ELSE AggregateShards(Tail(shards), total_entries + c[1].count,
                                 [i \in 1..D |-> mean[i] + c[1].sum[i]])

\* [res, part].  The function opens with assert!(self.shards.is_empty(), ...):
\* it panics unless the partition has no shards.
update_centroid(part) ==
    IF ~(part.shards = <<>>)
    THEN [res |-> "panic", part |-> part]
    ELSE LET a == AggregateShards(part.shards, 0, Zeros)
         IN [res |-> "ok",
             part |-> [part EXCEPT !.centroid =
                         Some([i \in 1..D |-> F32Div(a.mean[i], a.total_entries)])]]

(* -------------------------- cache/vector_cache ------------------------- *)

calculate_partition_size(max_entries, partition_count) ==
    IF ~(partition_count > 0) THEN [panic |-> TRUE, sizes |-> <<>>]
    ELSE LET base == max_entries \div partition_count
             remainder == max_entries % partition_count
         IN [panic |-> FALSE,
             sizes |-> AddRemainder([i \in 1..partition_count |-> base], 0, remainder)]

\* String::to_lowercase on the metric names the model draws
to_lowercase(name) ==
    CASE name = "Cosine"    -> "cosine"
      [] name = "EUCLIDEAN" -> "euclidean"
      [] OTHER              -> name

\* a resolver whose `_` arm falls back to cosine instead of panicking
initialise_search_metric_defaulting(name) ==
    LET lower == to_lowercase(name)
    IN CASE lower = "euclidean"   -> "EuclideanProduct"
         [] lower = "dot-product" -> "DotProduct"
         [] OTHER                 -> "CosineProduct"

\* the strategy the name resolves to, or "panic" (the match's `_` arm)
initialise_search_metric(name) ==
    LET lower == to_lowercase(name)
    IN CASE lower = "cosine"      -> "CosineProduct"
         [] lower = "euclidean"   -> "EuclideanProduct"
         [] lower = "dot-product" -> "DotProduct"
         [] OTHER                 -> "panic"

\* the loop over partition_sizes: [panic, partitions]
RECURSIVE BuildPartitions(_, _, _, _)
BuildPartitions(sizes, id, shard_count, built) ==
    IF id >= Len(sizes) THEN [panic |-> FALSE, partitions |-> built]
    ELSE LET size == sizes[id + 1]
             r == initiate_shards(CachePartition_new(id, size, shard_count),
                                  size, shard_count)
         IN IF r.panic THEN [panic |-> TRUE, partitions |-> <<>>]
            ELSE BuildPartitions(sizes, id + 1, shard_count, Append(built, r.part))

initialize_partitions(max_entries, partition_count, shard_count) ==
    LET s == calculate_partition_size(max_entries, partition_count)
    IN IF s.panic THEN [panic |-> TRUE, partitions |-> <<>>]
       ELSE BuildPartitions(s.sizes, 0, shard_count, <<>>)

\* [panic, search_metric, partitions]: the struct's fields are evaluated in
\* order, search_metric before partitions
VectorCache_new(c) ==
    LET m == initialise_search_metric(c.search_metric)
    IN IF m = "panic"
       THEN [panic |-> TRUE, search_metric |-> "none", partitions |-> <<>>]
       ELSE LET r == initialize_partitions(c.max_entries, c.partition_count,
                                           c.shard_count)
            IN IF r.panic
               THEN [panic |-> TRUE, search_metric |-> "none", partitions |-> <<>>]
               ELSE [panic |-> FALSE, search_metric |-> m,
                     partitions |-> r.partitions]

RECURSIVE size(_)
size(parts) ==
    IF parts = <<>> THEN 0 ELSE parts[1].entry_count + size(Tail(parts))

is_full(parts, max_entries) == size(parts) >= max_entries

\* [res, partitions, calls]: assert!(!self.is_full(), ...), then `true`;
\* calls are the operations the body invokes on the way, none
VectorCache_insert(parts, max_entries, vector, overwrite) ==
    IF is_full(parts, max_entries)
    THEN [res |-> "panic", partitions |-> parts, calls |-> <<>>]
    ELSE [res |-> "true", partitions |-> parts, calls |-> <<>>]

\* every entry the shards of the partitions store, in storage order
RECURSIVE ShardEntries(_)
ShardEntries(shards) ==
    IF shards = <<>> THEN <<>>
    ELSE shards[1].entries \o ShardEntries(Tail(shards))

RECURSIVE AllEntries(_)
AllEntries(parts) ==
    IF parts = <<>> THEN <<>>
    ELSE ShardEntries(parts[1].shards) \o AllEntries(Tail(parts))

\* a query that hands back stored entries in storage order, unsorted, and
\* one more of them than top_k
VectorCache_query_unsorted(parts, vector, top_k, threshold) ==
    LET all == AllEntries(parts)
    IN SubSeq(all, 1, IF Len(all) < top_k + 1 THEN Len(all) ELSE top_k + 1)

\* a query that hands back the stored entries without the threshold filter
VectorCache_query_unfiltered(parts, vector, top_k, threshold) ==
    AllEntries(parts)

\* VectorCache::query: a placeholder that returns Vec::new()
VectorCache_query(parts, vector, top_k, threshold) == <<>>

\* [res, partitions]: update_centroid on every partition in order; a panic
\* ends the loop and keeps the centroids already replaced
RECURSIVE RebuildFrom(_, _)
RebuildFrom(parts, i) ==
    IF i > Len(parts) THEN [res |-> "ok", partitions |-> parts]
    ELSE LET r == update_centroid(parts[i])
         IN IF r.res = "panic" THEN [res |-> "panic", partitions |-> parts]
            ELSE RebuildFrom([parts EXCEPT ![i] = r.part], i + 1)

rebuild(parts) == RebuildFrom(parts, 1)

(* ------------------------------ the program --------------------------- *)

\* what the last call was, what it returned, and the partitions before it
\* k and t are a query's top_k and threshold, out is what a call handed back
\* beyond its result
CallOut(op, res, p, s, v, ow, id, k, t, out) ==
    [op |-> op, res |-> res, p |-> p, s |-> s, v |-> v, ow |-> ow, id |-> id,
     k |-> k, t |-> t, out |-> out, pre |-> partitions]

Call(op, res, p, s, v, ow, id) == CallOut(op, res, p, s, v, ow, id, 0, 0, <<>>)

CacheConfigs(maxEntries, maxParts, maxShards, names) ==
    [kind : {"VectorCache"}, max_entries : 0..maxEntries,
     partition_count : 0..maxParts, shard_count : 0..maxShards,
     search_metric : names, eager_eviction : BOOLEAN,
     centroid_update : 1..MaxInterval]

PartitionConfigs(maxEntries, maxShards) ==
    [kind : {"CachePartition"}, max_entries : 0..maxEntries,
     partition_count : {1}, shard_count : 0..maxShards,
     search_metric : {"euclidean"}, eager_eviction : {FALSE},
     centroid_update : {1}]

InitWith(configs) ==
    /\ cfg \in configs
    /\ status = "init"
    /\ search_metric = "none"
    /\ partitions = <<>>
    /\ last = [op |-> "none", res |-> "none", p |-> 0, s |-> 0, v |-> <<>>,
               ow |-> FALSE, id |-> 0, k |-> 0, t |-> 0, out |-> <<>>,
               pre |-> <<>>]

\* Spec draws small configurations with the one metric of the spec's
\* end-to-end example; CtorSpec below draws the wide ones
Init ==
    InitWith(CacheConfigs(MaxEntries, MaxParts, MaxShards, {"euclidean"})
             \cup PartitionConfigs(MaxEntries, 0))

\* VectorCache::new
New ==
    /\ status = "init"
    /\ cfg.kind = "VectorCache"
    /\ LET r == VectorCache_new(cfg)
       IN /\ status' = IF r.panic THEN "failed" ELSE "cache"
          /\ search_metric' = r.search_metric
          /\ partitions' = r.partitions
          /\ last' = Call("VectorCache::new", IF r.panic THEN "panic" ELSE "ok",
                          0, 0, <<>>, FALSE, 0)
    /\ UNCHANGED cfg

\* CachePartition::new, used on its own
NewPartition ==
    /\ status = "init"
    /\ cfg.kind = "CachePartition"
    /\ status' = "partition"
    /\ partitions' = <<CachePartition_new(0, cfg.max_entries, cfg.shard_count)>>
    /\ last' = Call("CachePartition::new", "ok", 0, 0, <<>>, FALSE, 0)
    /\ UNCHANGED <<cfg, search_metric>>

Live == status \in {"cache", "partition"}

\* VectorCache::insert
CacheInsert(v, ow) ==
    /\ status = "cache"
    /\ LET r == VectorCache_insert(partitions, cfg.max_entries, v, ow)
       IN /\ partitions' = r.partitions
          /\ last' = CallOut("VectorCache::insert", r.res, 0, 0, v, ow, 0, 0, 0,
                             r.calls)
    /\ UNCHANGED <<cfg, status, search_metric>>

\* VectorCache::rebuild
Rebuild ==
    /\ status = "cache"
    /\ LET r == rebuild(partitions)
       IN /\ partitions' = r.partitions
          /\ last' = Call("VectorCache::rebuild", r.res, 0, 0, <<>>, FALSE, 0)
    /\ UNCHANGED <<cfg, status, search_metric>>

\* CachePartition::insert on partition p
PartitionInsert(p, v, ow) ==
    /\ Live
    /\ p \in 1..Len(partitions)
    /\ Len(partitions[p].entries) < MaxStored
    /\ LET r == CachePartition_insert(partitions[p], v, ow)
       IN /\ partitions' = [partitions EXCEPT ![p] = r.part]
          /\ last' = Call("CachePartition::insert", r.res, p, 0, v, ow, 0)
    /\ UNCHANGED <<cfg, status, search_metric>>

\* CachePartition::update_centroid on partition p
UpdateCentroid(p) ==
    /\ Live
    /\ p \in 1..Len(partitions)
    /\ LET r == update_centroid(partitions[p])
       IN /\ partitions' = [partitions EXCEPT ![p] = r.part]
          /\ last' = Call("CachePartition::update_centroid", r.res, p, 0, <<>>,
                          FALSE, 0)
    /\ UNCHANGED <<cfg, status, search_metric>>

\* CacheShard::insert on shard s of partition p
ShardInsert(p, s, v, ow, id) ==
    /\ Live
    /\ p \in 1..Len(partitions)
    /\ s \in 1..Len(partitions[p].shards)
    /\ LET r == CacheShard_insert(partitions[p].shards[s], v, ow, id)
       IN /\ partitions' = [partitions EXCEPT ![p].shards[s] = r.shard]
          /\ last' = Call("CacheShard::insert", IF r.res THEN "true" ELSE "false",
                          p, s, v, ow, id)
    /\ UNCHANGED <<cfg, status, search_metric>>

\* CacheShard::get_shard_centroid on shard s of partition p (&self)
ShardCentroid(p, s) ==
    /\ Live
    /\ p \in 1..Len(partitions)
    /\ s \in 1..Len(partitions[p].shards)
    /\ last' = CallOut("CacheShard::get_shard_centroid", "ok", p, s, <<>>, FALSE,
                       0, 0, 0, get_shard_centroid(partitions[p].shards[s]))
    /\ UNCHANGED <<cfg, status, search_metric, partitions>>

\* VectorCache::query
Query(v, k, t) ==
    /\ status = "cache"
    /\ last' = CallOut("VectorCache::query", "ok", 0, 0, v, FALSE, 0, k, t,
                       VectorCache_query(partitions, v, k, t))
    /\ UNCHANGED <<cfg, status, search_metric, partitions>>

\* CachePartition::query on partition p
PartitionQuery(p, v, k) ==
    /\ Live
    /\ p \in 1..Len(partitions)
    /\ last' = CallOut("CachePartition::query", "ok", p, 0, v, FALSE, 0, k, 0,
                       CachePartition_query(partitions[p], v, k))
    /\ UNCHANGED <<cfg, status, search_metric, partitions>>

Next ==
    \/ New
    \/ NewPartition
    \/ \E v \in Vectors, ow \in BOOLEAN : CacheInsert(v, ow)
    \/ Rebuild
    \/ \E p \in 1..MaxParts, v \in Vectors, ow \in BOOLEAN : PartitionInsert(p, v, ow)
    \/ \E p \in 1..MaxParts : UpdateCentroid(p)
    \/ \E p \in 1..MaxParts, s \in 1..MaxShards, v \in Vectors, ow \in BOOLEAN,
          id \in Ids : ShardInsert(p, s, v, ow, id)
    \/ \E p \in 1..MaxParts, s \in 1..MaxShards : ShardCentroid(p, s)
    \/ \E v \in Vectors, k \in 0..MaxTopK, t \in 0..MaxThreshold : Query(v, k, t)
    \/ \E p \in 1..MaxParts, v \in Vectors, k \in 0..MaxTopK : PartitionQuery(p, v, k)

Spec == Init /\ [][Next]_vars

(* construction alone, over wide configurations *)
InitCtor ==
    InitWith(CacheConfigs(MaxCtorEntries, MaxCtorCount, MaxCtorCount, MetricNames)
             \cup PartitionConfigs(MaxCtorEntries, MaxCtorCount))

NextCtor == New \/ NewPartition

CtorSpec == InitCtor /\ [][NextCtor]_vars

(* the shards and the queries alone: caches of one shard per partition,
   reached by direct CacheShard::insert calls *)
InitLeaf ==
    InitWith([kind : {"VectorCache"}, max_entries : 0..MaxEntries,
              partition_count : 1..MaxParts, shard_count : {1},
              search_metric : {"euclidean"}, eager_eviction : {FALSE},
              centroid_update : {1}])

NextLeaf ==
    \/ New
    \/ \E p \in 1..MaxParts, v \in Vectors, ow \in BOOLEAN, id \in Ids :
          ShardInsert(p, 1, v, ow, id)
    \/ \E p \in 1..MaxParts : ShardCentroid(p, 1)
    \/ \E v \in Vectors, k \in 0..MaxTopK, t \in 0..MaxThreshold : Query(v, k, t)

LeafSpec == InitLeaf /\ [][NextLeaf]_vars

(* one partition alone: built by CachePartition::new, or the only partition
   of a cache *)
InitPart ==
    InitWith(PartitionConfigs(MaxEntries, 0)
             \cup [kind : {"VectorCache"}, max_entries : 0..MaxEntries,
                   partition_count : {1}, shard_count : {1},
                   search_metric : {"euclidean"}, eager_eviction : {FALSE},
                   centroid_update : {1}])

NextPart ==
    \/ New
    \/ NewPartition
    \/ \E v \in Vectors, ow \in BOOLEAN : PartitionInsert(1, v, ow)
    \/ UpdateCentroid(1)
    \/ Rebuild
    \/ \E v \in Vectors, ow \in BOOLEAN, id \in Ids : ShardInsert(1, 1, v, ow, id)

PartSpec == InitPart /\ [][NextPart]_vars

(* ------------------------------ properties ---------------------------- *)

\* the partition a CachePartition::insert / update_centroid call acted on,
\* before and after the call
PrePart == last.pre[last.p]
PostPart == partitions[last.p]

\* the raw vectors a partition stores: its own entries and its shards' entries
RECURSIVE ShardVectors(_)
ShardVectors(shards) ==
    IF shards = <<>> THEN <<>>
    ELSE [i \in 1..Len(shards[1].entries) |-> shards[1].entries[i].vector]
         \o ShardVectors(Tail(shards))

HeldVectors(part) == part.entries \o ShardVectors(part.shards)

RECURSIVE VectorSum(_)
VectorSum(vs) ==
    IF vs = <<>> THEN Zeros
    ELSE LET r == VectorSum(Tail(vs)) IN [i \in 1..D |-> vs[1][i] + r[i]]

\* c is Some(the component-wise mean of vs), vs not empty
IsMeanOf(c, vs) ==
    /\ c # None
    /\ \A i \in 1..D : /\ c[1][i].den # 0
                       /\ c[1][i].num * Len(vs) = VectorSum(vs)[i] * c[1][i].den

\* C1: after any sequence of inserts, size() <= max_entries, and every
\* partition and every shard has entry_count <= its max_entries.
C1_CapacityInvariant ==
    /\ status = "cache" => size(partitions) <= cfg.max_entries
    /\ \A p \in 1..Len(partitions) :
         /\ partitions[p].entry_count <= partitions[p].max_entries
         /\ \A s \in 1..Len(partitions[p].shards) :
              partitions[p].shards[s].entry_count
                  <= partitions[p].shards[s].max_entries

\* C2: with overwrite=false, inserting a vector into a partition that has
\* room succeeds when its fingerprint is new, and fails with the duplicate
\* error, leaving the partition unchanged, when the partition already stores
\* that vector.
C2_DedupNoOverwrite ==
    (last.op = "CachePartition::insert" /\ ~last.ow
        /\ PrePart.entry_count < PrePart.max_entries)
    => LET key == generate_vector_id(scalar_quantize(last.v, Levels))
       IN /\ key \notin DOMAIN PrePart.id_map => last.res = "Ok(true)"
          /\ (\E i \in 1..Len(PrePart.entries) : PrePart.entries[i] = last.v)
               => (last.res = "Err(false)" /\ PostPart = PrePart)

\* C3: with overwrite=true, inserting a vector whose fingerprint is already
\* in the dedup map succeeds and leaves entry_count and size() as they were.
C3_OverwriteKeepsCount ==
    (last.op = "CachePartition::insert" /\ last.ow
        /\ generate_vector_id(scalar_quantize(last.v, Levels))
               \in DOMAIN PrePart.id_map)
    => /\ last.res = "Ok(true)"
       /\ PostPart.entry_count = PrePart.entry_count
       /\ size(partitions) = size(last.pre)

\* C4: every successful VectorCache::insert raises size() by one (so n of
\* them from an empty cache give size() = n), and is_full() holds afterwards
\* exactly when that count has reached max_entries.
C4_InsertsCounted ==
    (last.op = "VectorCache::insert" /\ last.res = "true")
    => /\ size(partitions) = size(last.pre) + 1
       /\ is_full(partitions, cfg.max_entries)
            <=> (size(last.pre) + 1 >= cfg.max_entries)

\* C5: VectorCache::insert into a cache at capacity, eager_eviction off,
\* returns the CapacityExceeded error (it does not abort) and changes nothing.
C5_FullCacheRejects ==
    (last.op = "VectorCache::insert" /\ ~cfg.eager_eviction
        /\ is_full(last.pre, cfg.max_entries))
    => (last.res = "CapacityExceeded" /\ partitions = last.pre)

\* C6: after rebuild(), every partition that holds vectors has the
\* component-wise mean of exactly those vectors as its centroid, and a
\* partition's centroid is None iff it holds no vector.
C6_CentroidIsMean ==
    last.op = "VectorCache::rebuild"
    => \A p \in 1..Len(partitions) :
         IF HeldVectors(partitions[p]) = <<>>
         THEN partitions[p].centroid = None
         ELSE IsMeanOf(partitions[p].centroid, HeldVectors(partitions[p]))

\* C7: rebuild() and update_centroid() complete without failure on every
\* constructed cache, whether or not its shards hold entries.
C7_RebuildCompletes ==
    (status = "cache"
        /\ last.op \in {"VectorCache::rebuild", "CachePartition::update_centroid"})
    => last.res = "ok"

\* n capacities that sum to total, the first (total mod n) of them
\* floor(total / n) + 1 and the rest floor(total / n)
SplitRule(sizes, total, n) ==
    /\ Len(sizes) = n
    /\ SeqSum(sizes) = total
    /\ \A i \in 1..n :
         sizes[i] = (total \div n) + (IF i <= total % n THEN 1 ELSE 0)

PartitionCapacities == [p \in 1..Len(partitions) |-> partitions[p].max_entries]
ShardCapacities(p) ==
    [s \in 1..Len(partitions[p].shards) |-> partitions[p].shards[s].max_entries]

\* C8: a constructed cache's partition capacities follow the split rule for
\* (max_entries, partition_count), and every partition's shard capacities
\* follow it for (the partition's capacity, shard_count), so they sum to the
\* partition's capacity.
C8_CapacitySplit ==
    status = "cache"
    => /\ SplitRule(PartitionCapacities, cfg.max_entries, cfg.partition_count)
       /\ \A p \in 1..Len(partitions) :
            SplitRule(ShardCapacities(p), partitions[p].max_entries,
                      cfg.shard_count)

\* C8 witness: 10 over 3 partitions gives 4,3,3 and the first partition's 4
\* over 3 shards gives 2,1,1
C8_Witness ==
    /\ status = "cache"
    /\ cfg.max_entries = 10 /\ cfg.partition_count = 3 /\ cfg.shard_count = 3
    /\ PartitionCapacities = <<4, 3, 3>>
    /\ ShardCapacities(1) = <<2, 1, 1>>

\* C9: CachePartition::insert rejects with CapacityExceeded exactly when
\* entry_count has reached max_entries, leaving the partition unchanged; below
\* capacity the call is not turned away for capacity.
C9_RejectsExactlyWhenFull ==
    last.op = "CachePartition::insert"
    => IF PrePart.entry_count >= PrePart.max_entries
       THEN last.res = "CapacityExceeded" /\ PostPart = PrePart
       ELSE last.res \in {"Ok(true)", "Err(false)"}

InvalidCounts == cfg.partition_count = 0 \/ cfg.shard_count = 0

ConstructionFailed ==
    /\ status = "failed"
    /\ last.res = "panic"
    /\ partitions = <<>>
    /\ search_metric = "none"

\* C10: VectorCache::new with partition_count = 0, with shard_count = 0, or
\* with a metric name that is none of cosine / euclidean / dot-product (the
\* code compares the lower-cased name) fails: no cache is produced and no
\* metric is resolved in place of the unknown one.
C10_InvalidConfigFails ==
    (last.op = "VectorCache::new"
        /\ (InvalidCounts
              \/ to_lowercase(cfg.search_metric)
                   \notin {"cosine", "euclidean", "dot-product"}))
    => ConstructionFailed

\* C10 witness: a known metric and a positive partition_count, refused for
\* shard_count = 0
C10_Witness ==
    /\ ConstructionFailed
    /\ last.op = "VectorCache::new"
    /\ cfg.search_metric = "Cosine"
    /\ cfg.partition_count > 0
    /\ cfg.shard_count = 0

\* the distance of a returned entry from the query vector, under the
\* cache's metric
ResultDistance(e) == distance(search_metric, last.v, e.vector)

C12_ThresholdFilter ==
    last.op = "VectorCache::query"
    => \A i \in 1..Len(last.out) : ResultDistance(last.out[i]) <= last.t

\* C12 witness: a query against a cache that stores an entry farther from
\* the query vector than the threshold
C12_Witness ==
    /\ last.op = "VectorCache::query"
    /\ last.k >= 1
    /\ \E i \in 1..Len(AllEntries(partitions)) :
         distance(search_metric, last.v, AllEntries(partitions)[i].vector) > last.t

\* C13: when centroid_update is 1, every successful VectorCache::insert
\* reaches the interval and so triggers rebuild() before it returns.
C13_InsertTriggersRebuild ==
    (last.op = "VectorCache::insert" /\ last.res = "true"
        /\ cfg.centroid_update = 1)
    => last.out = <<"VectorCache::rebuild">>

\* C14: no two entries stored in the cache carry the same entry id.
C14_UniqueIds ==
    \A i, j \in 1..Len(AllEntries(partitions)) :
        i # j => AllEntries(partitions)[i].entry_id
                   # AllEntries(partitions)[j].entry_id

RECURSIVE ShardCountSum(_)
ShardCountSum(shards) ==
    IF shards = <<>> THEN 0
    ELSE shards[1].entry_count + ShardCountSum(Tail(shards))

\* C15: CachePartition::insert keeps entry_count equal to the sum of the
\* shards' entry_count.
C15_CountIsShardSum ==
    (last.op = "CachePartition::insert"
        /\ PrePart.entry_count = ShardCountSum(PrePart.shards))
    => PostPart.entry_count = ShardCountSum(PostPart.shards)

\* the positions of the stored entries whose fingerprint is key
EntriesWithKey(part, key) ==
    {i \in 1..Len(part.entries) :
        generate_vector_id(scalar_quantize(part.entries[i], Levels)) = key}

\* C16: after CachePartition::insert every key of id_map belongs to exactly
\* one stored entry, and maps to that entry's quantized form.
C16_DedupKeysLive ==
    last.op = "CachePartition::insert"
    => \A key \in DOMAIN PostPart.id_map :
         /\ Cardinality(EntriesWithKey(PostPart, key)) = 1
         /\ \A i \in EntriesWithKey(PostPart, key) :
              PostPart.id_map[key] = scalar_quantize(PostPart.entries[i], Levels)

\* the call was a CachePartition::insert with overwrite=false of a vector
\* whose fingerprint is in id_map under different quantized bytes
CollisionCase ==
    /\ last.op = "CachePartition::insert"
    /\ ~last.ow
    /\ LET q == scalar_quantize(last.v, Levels)
       IN /\ generate_vector_id(q) \in DOMAIN PrePart.id_map
          /\ PrePart.id_map[generate_vector_id(q)] # q

PreShard == last.pre[last.p].shards[last.s]
PostShard == partitions[last.p].shards[last.s]

\* C18: every shard has entry_count = Len(entries) <= max_entries; a
\* CacheShard::insert returns false and leaves the shard alone when the shard
\* is at capacity or, with overwrite=false, already stores the vector, and
\* otherwise appends one entry (the vector under the given id) and adds one
\* to entry_count.
C18_ShardInvariant ==
    /\ \A p \in 1..Len(partitions) : \A s \in 1..Len(partitions[p].shards) :
         LET sh == partitions[p].shards[s]
         IN sh.entry_count = Len(sh.entries) /\ Len(sh.entries) <= sh.max_entries
    /\ last.op = "CacheShard::insert"
       => IF \/ PreShard.entry_count >= PreShard.max_entries
             \/ /\ ~last.ow
                /\ \E i \in 1..Len(PreShard.entries) :
                       PreShard.entries[i].vector = last.v
          THEN last.res = "false" /\ PostShard = PreShard
          ELSE /\ last.res = "true"
               /\ Len(PostShard.entries) = Len(PreShard.entries) + 1
               /\ SubSeq(PostShard.entries, 1, Len(PreShard.entries))
                    = PreShard.entries
               /\ PostShard.entries[Len(PostShard.entries)].vector = last.v
               /\ PostShard.entries[Len(PostShard.entries)].entry_id = last.id
               /\ PostShard.entry_count = PreShard.entry_count + 1

\* C18 witness: a shard with room refuses, with overwrite=false, a vector it
\* already stores
C18_Witness ==
    /\ last.op = "CacheShard::insert"
    /\ last.res = "false"
    /\ ~last.ow
    /\ PreShard.entry_count = 1
    /\ PreShard.max_entries = 2

ShardVectorsOf(shard) == [i \in 1..Len(shard.entries) |-> shard.entries[i].vector]

\* C19: get_shard_centroid returns None exactly when entry_count = 0, and
\* otherwise the component-wise sum of the stored vectors with the count; the
\* call changes nothing.
C19_PartialCentroid ==
    last.op = "CacheShard::get_shard_centroid"
    => /\ partitions = last.pre
       /\ (last.out = None) <=> (PostShard.entry_count = 0)
       /\ PostShard.entry_count > 0
            => /\ last.out[1].sum = VectorSum(ShardVectorsOf(PostShard))
               /\ last.out[1].count = PostShard.entry_count

\* C19 witness: the partial centroid of a shard that stores two vectors
C19_Witness ==
    /\ last.op = "CacheShard::get_shard_centroid"
    /\ PostShard.entry_count = 2
    /\ last.out # None

\* C20: no call other than update_centroid / rebuild (and construction)
\* changes a partition's centroid; in particular CachePartition::insert,
\* successful or not, leaves it as the last rebuild set it.
C20_LazyCentroid ==
    last.op \notin {"none", "VectorCache::new", "CachePartition::new",
                    "CachePartition::update_centroid", "VectorCache::rebuild"}
    => /\ Len(partitions) = Len(last.pre)
       /\ \A p \in 1..Len(partitions) :
            partitions[p].centroid = last.pre[p].centroid

\* C20 witness: a successful insert into a partition whose centroid an
\* earlier update_centroid had set
C20_Witness ==
    /\ last.op = "CachePartition::insert"
    /\ last.res = "Ok(true)"
    /\ PrePart.centroid # None
    /\ PostPart.centroid = PrePart.centroid

\* C21: every partition's entry_count equals the number of entries it
\* stores, whatever CachePartition::insert calls came before (a replaced
\* entry leaves storage, not only the count and the dedup map).
C21_CountMatchesStorage ==
    \A p \in 1..Len(partitions) :
        partitions[p].entry_count = Len(partitions[p].entries)

====
